---------------------------- MODULE Spec2Model ----------------------------
(* analyze_tb_incidence.py: the Prophet and ARIMA forecasts' dates, the     *)
(* LSTM section (min-max normalisation, sliding-window sequence creation,   *)
(* positional train/test split, fit, test-set evaluation in original units, *)
(* 5-step recursive forecast), the plot dates and the exported table        *)
(* (Spec).  data_updater.py: integrate_new_data and validate_updated_data   *)
(* called on a data file (SpecUpdater), and the update cycle of             *)
(* run_automatic_update and main (SpecCycle).                               *)
(*                                                                          *)
(* Real numbers are exact rationals <<n, d>> in lowest terms with d > 0.    *)
EXTENDS Integers, Sequences, FiniteSets, TLC

\* ---------------------------------------------------------------- bounds
\* Length of the longest exhaustively enumerated input series.
MaxN == 6
\* Most rows of an enumerated data file of the data updater.
MaxRows == 3

\* ------------------------------------------------------ program constants
look_back == 4
Horizon == 5
future_periods == 5
ArimaSteps == 5
PlotPeriods == 5
FirstYear == 2000

\* ------------------------------------------------------ exact arithmetic
Abs(a) == IF a < 0 THEN -a ELSE a

RECURSIVE GCD(_, _)
GCD(a, b) == IF b = 0 THEN a ELSE GCD(b, a % b)

RNorm(n, d) ==
    LET s == IF d < 0 THEN -1 ELSE 1
        g == GCD(Abs(n), Abs(d))
    IN  <<(s * n) \div g, (s * d) \div g>>

RInt(i) == <<i, 1>>
RZero == RInt(0)
ROne == RInt(1)

RAdd(a, b) ==
    LET g == GCD(a[2], b[2])
    IN  RNorm(a[1] * (b[2] \div g) + b[1] * (a[2] \div g), a[2] * (b[2] \div g))
RNeg(a) == <<-a[1], a[2]>>
RSub(a, b) == RAdd(a, RNeg(b))
RMul(a, b) ==
    LET g1 == GCD(Abs(a[1]), b[2])
        g2 == GCD(Abs(b[1]), a[2])
        h1 == IF g1 = 0 THEN 1 ELSE g1
        h2 == IF g2 = 0 THEN 1 ELSE g2
    IN  RNorm((a[1] \div h1) * (b[1] \div h2), (a[2] \div h2) * (b[2] \div h1))
RDiv(a, b) == RMul(a, RNorm(b[2], b[1]))
RLt(a, b) == a[1] * b[2] < b[1] * a[2]
RLe(a, b) == a[1] * b[2] <= b[1] * a[2]

RECURSIVE RSum(_)
RSum(s) == IF s = <<>> THEN RZero ELSE RAdd(Head(s), RSum(Tail(s)))

RECURSIVE SeqMin(_)
SeqMin(s) ==
    IF Len(s) = 1 THEN s[1]
    ELSE LET m == SeqMin(Tail(s)) IN IF s[1] < m THEN s[1] ELSE m

RECURSIVE SeqMax(_)
SeqMax(s) ==
    IF Len(s) = 1 THEN s[1]
    ELSE LET m == SeqMax(Tail(s)) IN IF s[1] > m THEN s[1] ELSE m

\* ------------------------------------------------------------ input data
\* India's WHO-reported incidence 2000..2023, the rows of the data file.
WhoSeries ==
    << 322, 315, 308, 301, 294, 287, 280, 276, 273, 270, 267, 264,
       258, 256, 252, 248, 244, 240, 238, 235, 229, 225, 220, 215 >>

\* Its first eight years.
ReferenceSeries == SubSeq(WhoSeries, 1, 8)

\* Incidence values of the enumerated series: non-negative, unevenly spaced.
SeriesValues == {0, 1, 3}

SmallSeries == UNION { [1..n -> SeriesValues] : n \in 1..MaxN }

InputSeries == SmallSeries \cup {ReferenceSeries, WhoSeries}

\* ------------------------------------------------------------------ dates
\* A date is 2 * year for 1 January and 2 * year + 1 for 31 December, the
\* only two days of a year the script meets: the rows of the data file are
\* dated 1 January (pd.to_datetime(year, format='%Y')), and freq='Y' is
\* pandas' year-end frequency.
JanFirst(yr) == 2 * yr
YearOf(d) == d \div 2

\* df['ds'] of a series of n yearly rows, and its maximum.
DS(n) == [i \in 1..n |-> JanFirst(FirstYear + i - 1)]
LastDate(n) == JanFirst(FirstYear + n - 1)

\* d + pd.DateOffset(years=k)
AddYears(d, k) == d + 2 * k

\* The first year end on or after d.
YearEndOnOrAfter(d) == 2 * (d \div 2) + 1

\* pd.date_range(start=d, periods=n, freq='Y')
DateRangeYearly(d, n) == [i \in 1..n |-> AddYears(YearEndOnOrAfter(d), i - 1)]

\* The elements of a sequence that satisfy a test, in order.
RECURSIVE SelectGreater(_, _)
SelectGreater(ds, d) ==
    IF ds = <<>> THEN <<>>
    ELSE (IF Head(ds) > d THEN <<Head(ds)>> ELSE <<>>) \o SelectGreater(Tail(ds), d)

Prefix(sq, n) == SubSeq(sq, 1, IF Len(sq) < n THEN Len(sq) ELSE n)

\* ------------------------------------------------------------ Prophet
\* make_future_dataframe(periods, freq='Y'): the history's dates followed by
\* the first `periods` of date_range(last_date, periods + 1) that are later
\* than last_date.  A forecast row is represented by the date it is for.
MakeFutureDataframe(n, periods) ==
    DS(n) \o Prefix(SelectGreater(DateRangeYearly(LastDate(n), periods + 1),
                                  LastDate(n)), periods)

\* The filter on the forecast frame left out.
FutureForecast_All(fc, n) == fc

\* forecast[forecast['ds'] > df['ds'].max()]
FutureForecast(fc, n) == SelectGreater(fc, LastDate(n))

\* -------------------------------------------------------------- ARIMA
\* arima_fit.forecast(steps): the model is fitted on the first ts rows
\* (RangeIndex 0..ts-1), and its forecast is for the rows that follow the
\* end of that sample, ts..ts+steps-1; a row is represented by its date.
ArimaForecast(ts, steps) == [k \in 1..steps |-> JanFirst(FirstYear + ts + k - 1)]

\* The dates the ARIMA future forecast is plotted against:
\* pd.date_range(start=df['ds'].max(), periods=6, freq='Y')[1:]
ArimaPlotDates(n) == Tail(DateRangeYearly(LastDate(n), 6))

\* ------------------------------------------------------- LSTM plot dates
\* The slice taken look_back rows too early.
ILocDates_NoLookBack(n, a, b) ==
    IF a - look_back >= b - look_back THEN <<>>
    ELSE [i \in 1..(b - a) |-> JanFirst(FirstYear + a - look_back + i - 1)]

\* df['ds'].iloc[a:b], 0-based and clipped to the frame.
ILocDates(n, a, b) ==
    LET hi == IF b > n THEN n ELSE b
    IN  IF a >= hi THEN <<>> ELSE SubSeq(DS(n), a + 1, hi)

\* The range started at the last observation itself.
FutureDates_NoOffset(n) == DateRangeYearly(LastDate(n), PlotPeriods)

\* pd.date_range(start=df['ds'].max() + pd.DateOffset(years=1), periods=5, freq='Y')
FutureDates(n) == DateRangeYearly(AddYears(LastDate(n), 1), PlotPeriods)

\* ------------------------------------------------- MinMaxScaler (0, 1)
\* A zero data range is replaced by 1 before the scale is computed, so a
\* constant series is transformed without an error.
HandleZerosInScale(r) == IF r = 0 THEN 1 ELSE r

ScalerFit(s) ==
    LET lo == SeqMin(s)
        hi == SeqMax(s)
        sc == RDiv(ROne, RInt(HandleZerosInScale(hi - lo)))
    IN  [data_min |-> lo, data_max |-> hi, scale_ |-> sc,
         min_ |-> RSub(RZero, RMul(RInt(lo), sc))]

NoScaler == [data_min |-> 0, data_max |-> 0, scale_ |-> ROne, min_ |-> RZero]

\* X * scale_ + min_
Transform(sc, v) == RAdd(RMul(RInt(v), sc.scale_), sc.min_)

\* The inverse without the offset: x / scale_.
InverseTransform_NoOffset(sc, x) == RDiv(x, sc.scale_)

\* (X - min_) / scale_
InverseTransform(sc, x) == RDiv(RSub(x, sc.min_), sc.scale_)

FitTransform(sc, s) == [i \in 1..Len(s) |-> Transform(sc, s[i])]

InverseTransformAll(sc, xs) == [i \in 1..Len(xs) |-> InverseTransform(sc, xs[i])]


\* ------------------------------------------------------ sequence creation
\* range(n) of a negative n is empty.
RangeLen(n) == IF n > 0 THEN n ELSE 0

\* The label taken one place early, from inside the context.
WindowLabel_OffByOne(sd, k) == sd[k + look_back - 1]

\* scaled_data[i:i+look_back, 0] and scaled_data[i+look_back, 0] for the
\* 0-based i of the source; windows are numbered from 1 here, window k
\* being the source's i = k - 1.
WindowContext(sd, k) == SubSeq(sd, k, k + look_back - 1)
WindowLabel(sd, k) == sd[k + look_back]

NumWindows(sd) == RangeLen(Len(sd) - look_back)

CreateX(sd) == [k \in 1..NumWindows(sd) |-> WindowContext(sd, k)]
CreateY(sd) == [k \in 1..NumWindows(sd) |-> WindowLabel(sd, k)]

\* ------------------------------------------------------- train/test split
\* round() in place of int().
TrainSize_Rounded(m) == (m * 8 + 5) \div 10

\* The split point rounded up.
TrainSize_Ceiling(m) == (m * 8 + 9) \div 10

\* int(len(X) * 0.8)
TrainSize(m) == (m * 8) \div 10

\* s[:n] and s[n:]
TrainPart(s, n) == SubSeq(s, 1, n)
TestPart(s, n) == SubSeq(s, n + 1, Len(s))

\* ------------------------------------------------- the regression function
\* The trained network is a deterministic function of its look_back inputs;
\* which function the training produced is not determined by the script.
ModelKinds == {"mean", "trend", "high", "low"}

Predict(m, ctx) ==
    CASE m = "mean"  -> RDiv(RSum(ctx), RInt(Len(ctx)))
      [] m = "trend" -> RSub(RAdd(ctx[Len(ctx)], ctx[Len(ctx)]), ctx[Len(ctx) - 1])
      [] m = "high"  -> <<3, 2>>
      [] m = "low"   -> <<-1, 2>>

PredictAll(m, xs) == [j \in 1..Len(xs) |-> Predict(m, xs[j])]

\* fit on an empty training set raises; with validation_split=0.2 a single
\* training sample cannot be split either in some library versions.
FitMustRaise(n) == n = 0
FitMayRaise(n) == n <= 1

\* --------------------------------------------------- recursive forecasting
\* The shift left out.
Roll_NoShift(a) == a

\* np.roll(a, -1): every element moves one place to the left, the first
\* one wraps around to the end.
Roll(a) == IF a = <<>> THEN a ELSE Tail(a) \o <<Head(a)>>

\* insert(0, next_pred) in place of append.
AppendPrediction_Prepend(fp, p) == <<p>> \o fp

\* np.roll(last_sequence, 1): the window shifted the wrong way.
SlideContext_RollRight(ctx, p) ==
    [(<<ctx[Len(ctx)]>> \o SubSeq(ctx, 1, Len(ctx) - 1)) EXCEPT ![Len(ctx)] = p]

\* The prediction clipped to [0, 1] before it is fed back.
SlideContext_Clamped(ctx, p) ==
    [Roll(ctx) EXCEPT ![Len(ctx)] =
        IF p[1] < 0 THEN <<0, 1>> ELSE IF p[1] > p[2] THEN <<1, 1>> ELSE p]

\* future_predictions.append(next_pred)
AppendPrediction(fp, p) == Append(fp, p)

\* last_sequence = np.roll(last_sequence, -1); last_sequence[-1] = next_pred
SlideContext(ctx, p) == [Roll(ctx) EXCEPT ![Len(ctx)] = p]

\* last_sequence as a view of scaled_data, written through.
ScaledDataAfterStep_Aliased(sd, p) == [sd EXCEPT ![Len(sd)] = p]

\* What an iteration of the loop does to scaled_data: last_sequence is a
\* copy (flatten) and np.roll returns a new array, so the assignment to
\* last_sequence[-1] does not reach scaled_data.
ScaledDataAfterStep(sd, p) == sd

\* scaled_data[:look_back]: the first values in place of the last.
LastSequence_Head(sd) == SubSeq(sd, 1, IF Len(sd) < look_back THEN Len(sd) ELSE look_back)

\* scaled_data[-look_back:].flatten()
LastSequence(sd) ==
    SubSeq(sd, IF Len(sd) > look_back THEN Len(sd) - look_back + 1 ELSE 1, Len(sd))

\* ------------------------------------------------------------- test error
\* np.mean((a - b) ** 2)
MeanSquaredDiff(a, b) ==
    RDiv(RSum([j \in 1..Len(a) |-> RMul(RSub(a[j], b[j]), RSub(a[j], b[j]))]),
         RInt(Len(a)))

TestLoss(tp_inv, yt_inv) == MeanSquaredDiff(tp_inv, yt_inv)

\* ------------------------------------------------------------------ state
VARIABLES
    pc,                     \* the statement block the script is at
    series,                 \* df['y'].values
    scaler,                 \* the fitted MinMaxScaler
    scaled_data,
    X, y,
    train_size,
    X_train, X_test, y_train, y_test,
    lstm_model,             \* "untrained" or the function fit produced
    fit_called,             \* lstm_model.fit has been entered
    error,                  \* the exception that ended the run, or "none"
    test_predictions, test_predictions_inv, y_test_inv,
    last_sequence,
    next_pred,
    future_predictions,
    predict_inputs,         \* the arguments of the predict calls of the loop
    future_predictions_inv,
    test_loss,
    forecast,               \* Prophet: the dates of the forecast frame
    future_forecast,        \* Prophet: the rows later than the last observation
    test_forecast,          \* ARIMA: the dates forecast for the test rows
    future_forecast_arima,  \* ARIMA: the dates of the "future" forecast
    test_dates,
    future_dates,
    all_forecasts,          \* the exported table, column by column
    data_file,              \* data updater: the CSV file, [exists, rows]
    new_data,               \* data updater: the argument of integrate_new_data
    updated_df,             \* data updater: integrate_new_data's result, [kind, rows]
    upd_pc,                 \* data updater: position of the caller
    validated_df,           \* data updater: the argument of validate_updated_data
    validation,             \* data updater: its result and the warnings it logged
    cyc_pc,                 \* update cycle: position in run_automatic_update / main
    backup,                 \* update cycle: the backup file, [exists, rows]
    has_new,                \* update cycle: what has_new_who_data returned
    fetched,                \* update cycle: new_data of run_automatic_update
    steps,                  \* update cycle: the steps run, each with its result
    success,                \* update cycle: what run_automatic_update returned
    exit_code               \* update cycle: the code main exits with

vars == << pc, series, scaler, scaled_data, X, y, train_size,
           X_train, X_test, y_train, y_test, lstm_model, fit_called, error,
           test_predictions, test_predictions_inv, y_test_inv,
           last_sequence, next_pred, future_predictions, predict_inputs,
           future_predictions_inv, test_loss,
           forecast, future_forecast, test_forecast, future_forecast_arima,
           test_dates, future_dates, all_forecasts,
           data_file, new_data, updated_df, upd_pc, validated_df, validation,
           cyc_pc, backup, has_new, fetched, steps, success, exit_code >>

prophetVars == << forecast, future_forecast >>
arimaVars == << test_forecast, future_forecast_arima >>
plotVars == << test_dates, all_forecasts >>
callVars == << validated_df, validation >>
cycleVars == << cyc_pc, backup, has_new, fetched, steps, success, exit_code >>
updVars == << data_file, new_data, updated_df, upd_pc, callVars, cycleVars >>
dataVars == << series >>
scalerVars == << scaler, scaled_data >>
windowVars == << X, y >>
splitVars == << train_size, X_train, X_test, y_train, y_test >>
modelVars == << lstm_model, fit_called >>
evalVars == << test_predictions, test_predictions_inv, y_test_inv >>
loopVars == << last_sequence, next_pred, future_predictions, predict_inputs >>

NoValue == <<0, 0>>

NoTable == [Date |-> <<>>, Prophet |-> <<>>, Prophet_Lower |-> <<>>,
            Prophet_Upper |-> <<>>, ARIMA |-> <<>>, LSTM |-> <<>>]

\* The analysis script does not touch the data updater's state.
NoFile == [exists |-> FALSE, rows |-> <<>>]
File(rows) == [exists |-> TRUE, rows |-> rows]
Unset == [kind |-> "unset", rows |-> <<>>]
None == [kind |-> "None", rows |-> <<>>]
Frame(rows) == [kind |-> "frame", rows |-> rows]

NoValidation == [result |-> "unset", warnings |-> {}]
NoExit == 0 - 1

\* validate_updated_data has not been called.
ValidateIdle ==
    /\ validated_df = Unset
    /\ validation = NoValidation

\* run_automatic_update has not been called.
CycleIdle ==
    /\ backup = NoFile
    /\ has_new = "unset"
    /\ fetched = Unset
    /\ steps = <<>>
    /\ success = "unset"
    /\ exit_code = NoExit

UpdaterIdle ==
    /\ data_file = NoFile
    /\ new_data = <<>>
    /\ updated_df = Unset
    /\ upd_pc = "off"
    /\ ValidateIdle
    /\ cyc_pc = "off"
    /\ CycleIdle

\* Nothing of the analysis script has run.
PipelineFresh ==
    /\ forecast = <<>> /\ future_forecast = <<>>
    /\ test_forecast = <<>> /\ future_forecast_arima = <<>>
    /\ test_dates = <<>> /\ future_dates = <<>>
    /\ all_forecasts = NoTable
    /\ scaler = NoScaler
    /\ scaled_data = <<>>
    /\ X = <<>> /\ y = <<>>
    /\ train_size = 0
    /\ X_train = <<>> /\ X_test = <<>> /\ y_train = <<>> /\ y_test = <<>>
    /\ lstm_model = "untrained"
    /\ fit_called = FALSE
    /\ error = "none"
    /\ test_predictions = <<>> /\ test_predictions_inv = <<>> /\ y_test_inv = <<>>
    /\ last_sequence = <<>>
    /\ next_pred = NoValue
    /\ future_predictions = <<>>
    /\ predict_inputs = <<>>
    /\ future_predictions_inv = <<>>
    /\ test_loss = NoValue

Init ==
    /\ pc = "prophet"
    /\ series \in InputSeries
    /\ UpdaterIdle
    /\ PipelineFresh

\* lines 67-98: the fit and the values are the library's; the model keeps
\* the dates of the rows
ProphetForecast ==
    /\ pc = "prophet"
    /\ future_dates' = MakeFutureDataframe(Len(series), future_periods)
    /\ forecast' = MakeFutureDataframe(Len(series), future_periods)
    /\ future_forecast' =
           FutureForecast(MakeFutureDataframe(Len(series), future_periods), Len(series))
    /\ pc' = "arima"
    /\ UNCHANGED << dataVars, scalerVars, windowVars, splitVars, modelVars, error,
                    evalVars, loopVars, future_predictions_inv, test_loss,
                    arimaVars, plotVars, updVars >>

\* lines 112-129: the model is fitted on the first int(len(df) * 0.8) rows
ArimaFit ==
    /\ pc = "arima"
    /\ train_size' = TrainSize(Len(series))
    /\ test_forecast' =
           ArimaForecast(TrainSize(Len(series)), Len(series) - TrainSize(Len(series)))
    /\ future_forecast_arima' = ArimaForecast(TrainSize(Len(series)), ArimaSteps)
    /\ pc' = "normalize"
    /\ UNCHANGED << dataVars, scalerVars, windowVars, X_train, X_test, y_train,
                    y_test, modelVars, error, evalVars, loopVars,
                    future_predictions_inv, test_loss, prophetVars, plotVars,
                    future_dates, updVars >>

\* lines 155-156
Normalize ==
    /\ pc = "normalize"
    /\ scaler' = ScalerFit(series)
    /\ scaled_data' = FitTransform(ScalerFit(series), series)
    /\ pc' = "window"
    /\ UNCHANGED << prophetVars, arimaVars, plotVars, future_dates, updVars,
                    dataVars, windowVars, splitVars, modelVars, error, evalVars,
                    loopVars, future_predictions_inv, test_loss >>

\* lines 159-166
CreateSequences ==
    /\ pc = "window"
    /\ X' = CreateX(scaled_data)
    /\ y' = CreateY(scaled_data)
    /\ pc' = "split"
    /\ UNCHANGED << prophetVars, arimaVars, plotVars, future_dates, updVars,
                    dataVars, scalerVars, splitVars, modelVars, error, evalVars,
                    loopVars, future_predictions_inv, test_loss >>

\* lines 169-175
SplitTrainTest ==
    /\ pc = "split"
    /\ train_size' = TrainSize(Len(X))
    /\ X_train' = TrainPart(X, TrainSize(Len(X)))
    /\ X_test' = TestPart(X, TrainSize(Len(X)))
    /\ y_train' = TrainPart(y, TrainSize(Len(X)))
    /\ y_test' = TestPart(y, TrainSize(Len(X)))
    /\ pc' = "fit"
    /\ UNCHANGED << prophetVars, arimaVars, plotVars, future_dates, updVars,
                    dataVars, scalerVars, windowVars, modelVars, error, evalVars,
                    loopVars, future_predictions_inv, test_loss >>

\* lines 178-184, fit returns
FitOk ==
    /\ pc = "fit"
    /\ ~FitMustRaise(Len(X_train))
    /\ fit_called' = TRUE
    /\ lstm_model' \in ModelKinds
    /\ pc' = "evaluate"
    /\ UNCHANGED << prophetVars, arimaVars, plotVars, future_dates, updVars,
                    dataVars, scalerVars, windowVars, splitVars, error, evalVars,
                    loopVars, future_predictions_inv, test_loss >>

\* lines 178-184, fit raises and the script ends with the exception
FitRaises ==
    /\ pc = "fit"
    /\ FitMayRaise(Len(X_train))
    /\ fit_called' = TRUE
    /\ error' = "ValueError"
    /\ pc' = "failed"
    /\ UNCHANGED << prophetVars, arimaVars, plotVars, future_dates, updVars,
                    dataVars, scalerVars, windowVars, splitVars, lstm_model, evalVars,
                    loopVars, future_predictions_inv, test_loss >>

\* The evaluation with the inverse transforms left out.
PredictTest_Normalized ==
    /\ pc = "evaluate"
    /\ test_predictions' = PredictAll(lstm_model, X_test)
    /\ test_predictions_inv' = PredictAll(lstm_model, X_test)
    /\ y_test_inv' = y_test
    /\ pc' = "forecast_init"
    /\ UNCHANGED << prophetVars, arimaVars, plotVars, future_dates, updVars,
                    dataVars, scalerVars, windowVars, splitVars, modelVars, error,
                    loopVars, future_predictions_inv, test_loss >>

\* lines 187-193 (train_predictions is computed and never read)
PredictTest ==
    /\ pc = "evaluate"
    /\ test_predictions' = PredictAll(lstm_model, X_test)
    /\ test_predictions_inv' =
           InverseTransformAll(scaler, PredictAll(lstm_model, X_test))
    /\ y_test_inv' = InverseTransformAll(scaler, y_test)
    /\ pc' = "forecast_init"
    /\ UNCHANGED << prophetVars, arimaVars, plotVars, future_dates, updVars,
                    dataVars, scalerVars, windowVars, splitVars, modelVars, error,
                    loopVars, future_predictions_inv, test_loss >>

\* lines 196-197
StartForecast ==
    /\ pc = "forecast_init"
    /\ last_sequence' = LastSequence(scaled_data)
    /\ future_predictions' = <<>>
    /\ pc' = "forecast"
    /\ UNCHANGED << prophetVars, arimaVars, plotVars, future_dates, updVars,
                    dataVars, scalerVars, windowVars, splitVars, modelVars, error,
                    evalVars, next_pred, predict_inputs, future_predictions_inv,
                    test_loss >>

\* lines 199-203, one iteration of the loop
ForecastStep ==
    /\ pc = "forecast"
    /\ Len(future_predictions) < Horizon
    /\ LET p == Predict(lstm_model, last_sequence)
       IN  /\ next_pred' = p
           /\ predict_inputs' = Append(predict_inputs, last_sequence)
           /\ future_predictions' = AppendPrediction(future_predictions, p)
           /\ last_sequence' = SlideContext(last_sequence, p)
           /\ scaled_data' = ScaledDataAfterStep(scaled_data, p)
    /\ UNCHANGED << prophetVars, arimaVars, plotVars, future_dates, updVars,
                    pc, dataVars, scaler, windowVars, splitVars, modelVars,
                    error, evalVars, future_predictions_inv, test_loss >>

\* A second scaler fitted on the last look_back observations.
Denormalize_Refit ==
    /\ pc = "forecast"
    /\ Len(future_predictions) = Horizon
    /\ scaler' = ScalerFit(SubSeq(series, Len(series) - look_back + 1, Len(series)))
    /\ future_predictions_inv' =
           InverseTransformAll(
               ScalerFit(SubSeq(series, Len(series) - look_back + 1, Len(series))),
               future_predictions)
    /\ pc' = "plot"
    /\ UNCHANGED << prophetVars, arimaVars, plotVars, future_dates, updVars,
                    dataVars, scaled_data, windowVars, splitVars, modelVars, error,
                    evalVars, loopVars, test_loss >>

\* The loop left after its first iteration.
Denormalize_Early ==
    /\ pc = "forecast"
    /\ Len(future_predictions) >= 1
    /\ future_predictions_inv' = InverseTransformAll(scaler, future_predictions)
    /\ pc' = "plot"
    /\ UNCHANGED << prophetVars, arimaVars, plotVars, future_dates, updVars,
                    dataVars, scalerVars, windowVars, splitVars, modelVars, error,
                    evalVars, loopVars, test_loss >>

\* line 205, after the loop has run range(5) times
Denormalize ==
    /\ pc = "forecast"
    /\ Len(future_predictions) = Horizon
    /\ future_predictions_inv' = InverseTransformAll(scaler, future_predictions)
    /\ pc' = "plot"
    /\ UNCHANGED << prophetVars, arimaVars, plotVars, future_dates, updVars,
                    dataVars, scalerVars, windowVars, splitVars, modelVars, error,
                    evalVars, loopVars, test_loss >>

\* lines 212-217
PlotLSTM ==
    /\ pc = "plot"
    /\ test_dates' = ILocDates(Len(series), train_size + look_back,
                               train_size + look_back + Len(test_predictions_inv))
    /\ future_dates' = FutureDates(Len(series))
    /\ pc' = "metrics"
    /\ UNCHANGED << dataVars, scalerVars, windowVars, splitVars, modelVars, error,
                    evalVars, loopVars, future_predictions_inv, test_loss,
                    prophetVars, arimaVars, all_forecasts, updVars >>

\* line 230
ComputeTestLoss ==
    /\ pc = "metrics"
    /\ test_loss' = TestLoss(test_predictions_inv, y_test_inv)
    /\ pc' = "export"
    /\ UNCHANGED << prophetVars, arimaVars, plotVars, future_dates, updVars,
                    dataVars, scalerVars, windowVars, splitVars, modelVars, error,
                    evalVars, loopVars, future_predictions_inv >>

\* lines 408-417: pd.DataFrame raises when its columns differ in length
ColumnsAgree(t) ==
    /\ Len(t.Prophet) = Len(t.Date)
    /\ Len(t.Prophet_Lower) = Len(t.Date)
    /\ Len(t.Prophet_Upper) = Len(t.Date)
    /\ Len(t.ARIMA) = Len(t.Date)
    /\ Len(t.LSTM) = Len(t.Date)

ForecastTable ==
    [Date |-> future_dates, Prophet |-> future_forecast,
     Prophet_Lower |-> future_forecast, Prophet_Upper |-> future_forecast,
     ARIMA |-> future_forecast_arima, LSTM |-> future_predictions_inv]

ExportForecasts ==
    /\ pc = "export"
    /\ IF ColumnsAgree(ForecastTable)
       THEN all_forecasts' = ForecastTable /\ pc' = "done" /\ error' = error
       ELSE all_forecasts' = all_forecasts /\ pc' = "failed" /\ error' = "ValueError"
    /\ UNCHANGED << dataVars, scalerVars, windowVars, splitVars, modelVars,
                    evalVars, loopVars, future_predictions_inv, test_loss,
                    prophetVars, arimaVars, test_dates, future_dates, updVars >>

Next ==
    \/ ProphetForecast
    \/ ArimaFit
    \/ PlotLSTM
    \/ ExportForecasts
    \/ Normalize
    \/ CreateSequences
    \/ SplitTrainTest
    \/ FitOk
    \/ FitRaises
    \/ PredictTest
    \/ StartForecast
    \/ ForecastStep
    \/ Denormalize
    \/ ComputeTestLoss

Spec == Init /\ [][Next]_vars

TypeOK ==
    /\ pc \in {"prophet", "arima", "normalize", "window", "split", "fit",
               "evaluate", "forecast_init", "forecast", "plot", "metrics",
               "export", "done", "failed", "off"}
    /\ error \in {"none", "ValueError"}
    /\ lstm_model \in ModelKinds \cup {"untrained"}
    /\ Len(future_predictions) <= Horizon

\* ------------------------------------------------------------ data updater
\* TBDataUpdater.integrate_new_data of data_updater.py, called on a data
\* file.  A row is [ds, y]; ds is a date as above.
pipelineVars ==
    << pc, series, scaler, scaled_data, X, y, train_size, X_train, X_test,
       y_train, y_test, lstm_model, fit_called, error, test_predictions,
       test_predictions_inv, y_test_inv, last_sequence, next_pred,
       future_predictions, predict_inputs, future_predictions_inv, test_loss,
       forecast, future_forecast, test_forecast, future_forecast_arima,
       test_dates, future_dates, all_forecasts >>

\* get_new_who_data(): the two new points, keyed by year
GetNewWhoData ==
    << [year |-> 2023, incidence |-> 215], [year |-> 2024, incidence |-> 210] >>

\* What integrate_new_data is called with: the points above, one of them,
\* or an empty list.
NewDataChoices ==
    { GetNewWhoData, <<GetNewWhoData[2]>>, <<GetNewWhoData[2], GetNewWhoData[2]>>,
      <<>> }

\* Rows a data file may hold: years around the new points, dated 1 January
\* (or 31 December, as another file might), in any order, repeats included.
FileDates == { JanFirst(2022), JanFirst(2023), JanFirst(2024), JanFirst(2023) + 1 }
FileValues == { 215, 1200 }
FileRows == [ds : FileDates, y : FileValues]
DataFiles == UNION { [1..n -> FileRows] : n \in 0..MaxRows }

\* new_df: year -> ds through pd.to_datetime(..., format='%Y'), incidence -> y
NewFrame(nd) == [i \in 1..Len(nd) |-> [ds |-> JanFirst(nd[i].year), y |-> nd[i].incidence]]

\* The rows without the i-th.
RemoveAt(rows, i) == SubSeq(rows, 1, i - 1) \o SubSeq(rows, i + 1, Len(rows))

\* sort_values('ds'): the rows in ascending ds; the default sort is not
\* stable, so rows with equal ds may come out in any order.
RECURSIVE SortedByDs(_)
SortedByDs(rows) ==
    IF rows = <<>> THEN { <<>> }
    ELSE UNION { { <<rows[i]>> \o rest : rest \in SortedByDs(RemoveAt(rows, i)) } :
                   i \in { j \in 1..Len(rows) :
                             \A k \in 1..Len(rows) : rows[j].ds <= rows[k].ds } }

\* The duplicates kept.
DropDuplicates_Keep(rows) == rows

\* drop_duplicates(subset='ds'): the first row of every ds is kept
RECURSIVE DropDuplicates(_)
DropDuplicates(rows) ==
    IF rows = <<>> THEN <<>>
    ELSE LET init == DropDuplicates(SubSeq(rows, 1, Len(rows) - 1))
             last == rows[Len(rows)]
         IN  IF \E i \in 1..(Len(rows) - 1) : rows[i].ds = last.ds
             THEN init ELSE Append(init, last)

UpdaterInit ==
    /\ pc = "off"
    /\ series = <<>>
    /\ PipelineFresh
    /\ data_file \in { File(rows) : rows \in DataFiles } \cup {NoFile}
    /\ new_data = <<>>
    /\ updated_df = Unset
    /\ upd_pc = "ready"
    /\ ValidateIdle
    /\ cyc_pc = "off"
    /\ CycleIdle

\* lines 124-147: the merge succeeds, the file is rewritten
IntegrateNewData ==
    /\ upd_pc = "ready"
    /\ data_file.exists
    /\ \E nd \in NewDataChoices \ {<<>>} :
          /\ new_data' = nd
          /\ \E sorted \in SortedByDs(data_file.rows \o NewFrame(nd)) :
                /\ updated_df' = Frame(DropDuplicates(sorted))
                /\ data_file' = File(DropDuplicates(sorted))
    /\ upd_pc' = "returned"
    /\ UNCHANGED << pipelineVars, callVars, cycleVars >>

\* The data file opened for writing before the merge: an error leaves it
\* without rows.
IntegrateNewDataFails_Truncates ==
    /\ upd_pc = "ready"
    /\ \E nd \in NewDataChoices :
          /\ ~data_file.exists \/ nd = <<>>
          /\ new_data' = nd
    /\ updated_df' = None
    /\ data_file' = File(<<>>)
    /\ upd_pc' = "returned"
    /\ UNCHANGED << pipelineVars, callVars, cycleVars >>

\* lines 149-151: read_csv raises without a file and new_df['ds'] raises
\* for an empty list of points; the exception is logged, None is returned
IntegrateNewDataFails ==
    /\ upd_pc = "ready"
    /\ \E nd \in NewDataChoices :
          /\ ~data_file.exists \/ nd = <<>>
          /\ new_data' = nd
    /\ updated_df' = None
    /\ upd_pc' = "returned"
    /\ UNCHANGED << pipelineVars, data_file, callVars, cycleVars >>

\* ------------------------------------------------- validate_updated_data
IsLeap(yr) == (yr % 4 = 0 /\ yr % 100 # 0) \/ yr % 400 = 0

\* The day count of a date, from 1 January of FirstYear.
DayNumber(d) ==
    LET yr == YearOf(d)
    IN  365 * (yr - FirstYear)
          + Cardinality({ k \in FirstYear..(yr - 1) : IsLeap(k) })
          + (IF d % 2 = 1 THEN (IF IsLeap(yr) THEN 365 ELSE 364) ELSE 0)

\* lines 159-163: a row whose distance from the row before is not 365 days
HasGaps(rows) ==
    \E i \in 2..Len(rows) : DayNumber(rows[i].ds) - DayNumber(rows[i - 1].ds) # 365

\* lines 167-168: y.min() < 0 or y.max() > 1000
UnusualValues(rows) ==
    \E i \in 1..Len(rows) : rows[i].y < 0 \/ rows[i].y > 1000

\* lines 172-173: duplicated(subset='ds').any()
HasDuplicates(rows) ==
    \E i, j \in 1..Len(rows) : i < j /\ rows[i].ds = rows[j].ds

ValidationWarnings(rows) ==
    (IF HasGaps(rows) THEN {"gaps"} ELSE {})
      \cup (IF UnusualValues(rows) THEN {"range"} ELSE {})
      \cup (IF HasDuplicates(rows) THEN {"duplicates"} ELSE {})

\* A finding makes the validation fail.
ValidateUpdatedData_Strict(df) ==
    IF df.kind # "frame" THEN [result |-> "False", warnings |-> {}]
    ELSE [result |-> IF ValidationWarnings(df.rows) = {} THEN "True" ELSE "False",
          warnings |-> ValidationWarnings(df.rows)]

\* lines 153-181: None['ds'] raises and the handler returns False; on a
\* frame every check only logs.
ValidateUpdatedData(df) ==
    IF df.kind # "frame" THEN [result |-> "False", warnings |-> {}]
    ELSE [result |-> "True", warnings |-> ValidationWarnings(df.rows)]

\* validate_updated_data called on what integrate_new_data returned, or on
\* the dataset read from the data file.
Validate ==
    /\ upd_pc = "returned"
    /\ \E df \in {updated_df}
                  \cup (IF data_file.exists THEN {Frame(data_file.rows)} ELSE {}) :
          /\ validated_df' = df
          /\ validation' = ValidateUpdatedData(df)
    /\ upd_pc' = "validated"
    /\ UNCHANGED << pipelineVars, data_file, new_data, updated_df, cycleVars >>

UpdaterNext ==
    \/ IntegrateNewData
    \/ IntegrateNewDataFails
    \/ Validate

SpecUpdater == UpdaterInit /\ [][UpdaterNext]_vars

\* ------------------------------------------------------------ update cycle
\* TBDataUpdater.run_automatic_update and main of data_updater.py.
latest_available == 2023

\* The backup step left out.
BackupExistingData_Skipped(file, old) == old

\* lines 48-55: the rows of the data file are copied to a new backup file,
\* when the data file exists
BackupExistingData(file, old) == IF file.exists THEN File(file.rows) ELSE old

\* current_df['ds'].max() of a frame read by pd.read_csv: the column is not
\* parsed, its values are strings (NaN, a float, for a frame without rows).
DsMaxType(rows) == IF rows = <<>> THEN "float" ELSE "str"

\* .year exists on a Timestamp only.
HasYear(t) == t = "Timestamp"

RECURSIVE MaxYear(_)
MaxYear(rows) ==
    IF Len(rows) = 1 THEN YearOf(rows[1].ds)
    ELSE LET m == MaxYear(Tail(rows))
         IN  IF YearOf(rows[1].ds) > m THEN YearOf(rows[1].ds) ELSE m

\* lines 89-107: read_csv raises without a file, .year raises on a value
\* that has no such attribute; every exception is answered with False
HasNewWhoData(file) ==
    IF ~file.exists THEN FALSE
    ELSE IF ~HasYear(DsMaxType(file.rows)) THEN FALSE
    ELSE MaxYear(file.rows) < latest_available

\* lines 183-199
TriggerModelRetraining == TRUE

\* Every step run, whatever the step before returned.
CompleteCycle_Ungated(nd) ==
    [steps |-> << <<"validate", ValidateUpdatedData(nd).result>>,
                  <<"retrain", "True">>, <<"docs", "True">> >>,
     result |-> "True"]

\* lines 240-258: the steps after the fetch and the value returned
CompleteCycle(nd) ==
    IF nd # None
    THEN IF ValidateUpdatedData(nd).result = "True"
         THEN IF TriggerModelRetraining
              THEN [steps |-> << <<"validate", "True">>, <<"retrain", "True">>,
                                 <<"docs", "True">> >>,
                    result |-> "True"]
              ELSE [steps |-> << <<"validate", "True">>, <<"retrain", "False">> >>,
                    result |-> "False"]
         ELSE [steps |-> << <<"validate", "False">> >>, result |-> "False"]
    ELSE [steps |-> <<>>, result |-> "True"]

\* Always 0.
ExitCode_Zero(ok) == 0

\* lines 309-316
ExitCode(ok) == IF ok = "True" THEN 0 ELSE 1

CycleInit ==
    /\ pc = "off"
    /\ series = <<>>
    /\ PipelineFresh
    /\ data_file \in { File(rows) : rows \in DataFiles } \cup {NoFile}
    /\ new_data = <<>>
    /\ updated_df = Unset
    /\ upd_pc = "off"
    /\ ValidateIdle
    /\ cyc_pc = "backup"
    /\ CycleIdle

\* line 235
Backup ==
    /\ cyc_pc = "backup"
    /\ backup' = BackupExistingData(data_file, backup)
    /\ steps' = Append(steps, <<"backup", "ok">>)
    /\ cyc_pc' = "fetch"
    /\ UNCHANGED << pipelineVars, data_file, new_data, updated_df, upd_pc, callVars,
                    has_new, fetched, success, exit_code >>

\* lines 53-54 raise (the file cannot be read, the backup cannot be
\* written); lines 260-262 log the exception and return False
BackupRaises ==
    /\ cyc_pc = "backup"
    /\ data_file.exists
    /\ steps' = Append(steps, <<"backup", "raised">>)
    /\ success' = "False"
    /\ cyc_pc' = "status"
    /\ UNCHANGED << pipelineVars, data_file, new_data, updated_df, upd_pc, callVars,
                    backup, has_new, fetched, exit_code >>

\* line 238, fetch_who_tb_data (lines 57-87): the new points are integrated
\* when has_new_who_data says so, None is returned otherwise
Fetch ==
    /\ cyc_pc = "fetch"
    /\ has_new' = (IF HasNewWhoData(data_file) THEN "True" ELSE "False")
    /\ IF HasNewWhoData(data_file)
       THEN /\ new_data' = GetNewWhoData
            /\ \E sorted \in SortedByDs(data_file.rows \o NewFrame(GetNewWhoData)) :
                  /\ updated_df' = Frame(DropDuplicates(sorted))
                  /\ data_file' = File(DropDuplicates(sorted))
                  /\ fetched' = Frame(DropDuplicates(sorted))
            /\ steps' = Append(steps, <<"fetch", "frame">>)
       ELSE /\ fetched' = None
            /\ steps' = Append(steps, <<"fetch", "None">>)
            /\ UNCHANGED << data_file, new_data, updated_df >>
    /\ cyc_pc' = "finish"
    /\ UNCHANGED << pipelineVars, upd_pc, callVars, backup, success, exit_code >>

\* lines 240-258
Complete ==
    /\ cyc_pc = "finish"
    /\ steps' = steps \o CompleteCycle(fetched).steps
    /\ success' = CompleteCycle(fetched).result
    /\ cyc_pc' = "status"
    /\ UNCHANGED << pipelineVars, data_file, new_data, updated_df, upd_pc, callVars,
                    backup, has_new, fetched, exit_code >>

\* main, lines 304-316
Main ==
    /\ cyc_pc = "status"
    /\ exit_code' = ExitCode(success)
    /\ cyc_pc' = "done"
    /\ UNCHANGED << pipelineVars, data_file, new_data, updated_df, upd_pc, callVars,
                    backup, has_new, fetched, steps, success >>

CycleNext ==
    \/ Backup
    \/ BackupRaises
    \/ Fetch
    \/ Complete
    \/ Main

SpecCycle == CycleInit /\ [][CycleNext]_vars

\* ------------------------------------------------------------ properties
InLoop == pc \in {"forecast", "plot", "metrics", "export", "done"}

\* The script has not yet normalised, windowed, split.
NotNormalized == pc \in {"prophet", "arima", "normalize"}
NotWindowed == NotNormalized \/ pc = "window"
NotSplit == NotWindowed \/ pc = "split"

\* The last look_back normalised observations, read off scaled_data.
InitialContext ==
    [i \in 1..look_back |-> scaled_data[Len(scaled_data) - look_back + i]]

OutOfRange(v) == RLt(v, RZero) \/ RLt(ROne, v)

\* C1: in the recursive forecast the j-th output is predict(context_j);
\* context_1 is the initial context and context_{j+1} is context_j without
\* its first element and with the j-th prediction appended, nothing else
\* changed or reordered.
C1_RecursiveContext ==
    InLoop =>
        /\ Len(predict_inputs) = Len(future_predictions)
        /\ \A j \in 1..Len(future_predictions) :
              /\ future_predictions[j] = Predict(lstm_model, predict_inputs[j])
              /\ j = 1 => predict_inputs[j] = InitialContext
              /\ j > 1 => predict_inputs[j] =
                     Tail(predict_inputs[j - 1]) \o <<future_predictions[j - 1]>>
        /\ future_predictions # <<>> =>
              last_sequence =
                  Tail(predict_inputs[Len(predict_inputs)])
                      \o <<future_predictions[Len(future_predictions)]>>

C1_Witness ==
    /\ pc = "done"
    /\ Len(future_predictions) = Horizon
    /\ future_predictions[1] # future_predictions[2]
    /\ predict_inputs[2] # predict_inputs[1]
    /\ predict_inputs[1][1] # predict_inputs[1][2]

\* C2: the forecast has exactly Horizon values once the loop is over, and it
\* is built in forecast order: every iteration leaves the values already
\* there in place and puts its own prediction after them, so the step-1
\* prediction stays first.
C2_ForecastLength ==
    [][ /\ future_predictions' # future_predictions =>
              /\ Len(future_predictions') = Len(future_predictions) + 1
              /\ SubSeq(future_predictions', 1, Len(future_predictions))
                     = future_predictions
              /\ future_predictions'[Len(future_predictions')] = next_pred'
        /\ pc' \in {"plot", "metrics", "export", "done"} =>
              /\ Len(future_predictions') = Horizon
              /\ Len(future_predictions_inv') = Horizon
      ]_vars

C2_Witness ==
    /\ pc = "done"
    /\ Len(future_predictions) = Horizon
    /\ \A i, j \in 1..Horizon : i # j => future_predictions[i] # future_predictions[j]

\* C3: a normalised series of length N gives exactly max(0, N - look_back)
\* windows; window i (0-based) has context series[i .. i+look_back-1] and
\* label series[i+look_back]; the windows are in input order.
C3_Windows ==
    ~NotWindowed =>
        LET N == Len(scaled_data)
            M == IF N - look_back > 0 THEN N - look_back ELSE 0
        IN  /\ Len(X) = M
            /\ Len(y) = M
            /\ \A i \in 0..(M - 1) :
                  /\ Len(X[i + 1]) = look_back
                  /\ \A k \in 1..look_back : X[i + 1][k] = scaled_data[i + k]
                  /\ y[i + 1] = scaled_data[i + look_back + 1]

C3_Witness ==
    /\ pc = "split"
    /\ Len(X) >= 2
    /\ X[1] # X[2]
    /\ y[1] # y[2]

\* C4: a series no longer than look_back is rejected by the windowing stage
\* with an InsufficientDataError before fit is attempted.
C4_InsufficientDataRejected ==
    (Len(series) <= look_back /\ ~NotWindowed) =>
        /\ pc = "failed"
        /\ error = "InsufficientDataError"
        /\ ~fit_called

\* C5: a constant series is rejected by normalisation with a
\* DegenerateRangeError; no normalised values are returned for it.
C5_ConstantSeriesRejected ==
    (SeqMax(series) = SeqMin(series) /\ ~NotNormalized) =>
        /\ pc = "failed"
        /\ error = "DegenerateRangeError"
        /\ scaled_data = <<>>

\* C6: round trip: with (min, max) fitted on the series and min # max, the
\* inverse of the transform of every value of the series is that value.
C6_RoundTrip ==
    (~NotNormalized /\ scaler.data_min # scaler.data_max) =>
        /\ Len(scaled_data) = Len(series)
        /\ \A i \in 1..Len(series) :
              InverseTransform(scaler, scaled_data[i]) = RInt(series[i])

C6_Witness ==
    /\ pc = "done"
    /\ scaler.data_min # scaler.data_max
    /\ scaler.data_min # 0
    /\ \E i \in 1..Len(series) :
          RLt(RZero, scaled_data[i]) /\ RLt(scaled_data[i], ROne)

\* C7: every normalised value of the observed series lies in [0, 1]; the
\* series minimum is mapped to 0, the series maximum to 1, and the order of
\* the values is preserved.
C7_NormalizedRange ==
    ~NotNormalized =>
        /\ Len(scaled_data) = Len(series)
        /\ \A i \in 1..Len(series) :
              /\ RLe(RZero, scaled_data[i]) /\ RLe(scaled_data[i], ROne)
              /\ series[i] = SeqMin(series) => scaled_data[i] = RZero
              /\ series[i] = SeqMax(series) => scaled_data[i] = ROne
        /\ \A i, j \in 1..Len(series) :
              series[i] < series[j] => RLt(scaled_data[i], scaled_data[j])

\* C8: the forecaster has no guard: a prediction below 0 or above 1 is
\* appended to the output as predict returned it and is fed back into the
\* context as it is, where it stays until it has slid out of the window;
\* the loop never ends the run because of it.
C8_NoGuard ==
    /\ InLoop =>
          \A j \in 1..Len(future_predictions) :
              OutOfRange(Predict(lstm_model, predict_inputs[j])) =>
                  /\ future_predictions[j] = Predict(lstm_model, predict_inputs[j])
                  /\ \A k \in (j + 1)..Len(predict_inputs) :
                        k - j < look_back =>
                            predict_inputs[k][look_back - (k - j) + 1]
                                = Predict(lstm_model, predict_inputs[j])
                  /\ j = Len(future_predictions) =>
                        last_sequence[look_back]
                            = Predict(lstm_model, predict_inputs[j])
    /\ pc = "failed" => future_predictions = <<>> /\ predict_inputs = <<>>

C8_Witness ==
    /\ pc = "done"
    /\ OutOfRange(future_predictions[1])
    /\ predict_inputs[2][look_back] = future_predictions[1]
    /\ ~OutOfRange(predict_inputs[1][look_back])

\* C9: the split is positional: the training set is the first
\* floor(0.8 * M) windows, the test set the remaining suffix; together they
\* are all M windows, each once, in the original order, and every training
\* window comes before every test window.
C9_PositionalSplit ==
    ~NotSplit =>
        LET M == Len(X)
        IN  /\ 10 * train_size <= 8 * M
            /\ 8 * M < 10 * (train_size + 1)
            /\ Len(X_train) = train_size
            /\ Len(y_train) = train_size
            /\ Len(X_test) = M - train_size
            /\ Len(y_test) = M - train_size
            /\ \A a \in 1..M :
                  IF a <= train_size
                  THEN X_train[a] = X[a] /\ y_train[a] = y[a]
                  ELSE /\ X_test[a - train_size] = X[a]
                       /\ y_test[a - train_size] = y[a]

C9_Witness ==
    /\ pc = "fit"
    /\ Len(X_train) >= 2
    /\ Len(X_test) >= 2
    /\ X_train[Len(X_train)] # X_test[1]

\* C10: the test-set mean squared error is over denormalised values: it is
\* the mean, over the test windows, of the squared difference between the
\* denormalised prediction and the observed incidence of the label's year.
C10_ErrorInOriginalUnits ==
    pc = "done" =>
        /\ Len(test_predictions) = Len(X) - train_size
        /\ test_loss =
              RDiv(RSum([j \in 1..Len(test_predictions) |->
                     LET d == RSub(InverseTransform(scaler, test_predictions[j]),
                                   RInt(series[train_size + look_back + j]))
                     IN  RMul(d, d)]),
                   RInt(Len(test_predictions)))

C10_Witness ==
    /\ pc = "done"
    /\ Len(test_predictions) >= 2
    /\ scaler.data_max - scaler.data_min > 1
    /\ test_loss # RZero
    /\ test_loss # MeanSquaredDiff(test_predictions, y_test)

\* C11: the (min, max) of the scaler are fitted once, on the full series,
\* and never change afterwards; the same scaler normalises the series and
\* denormalises the test predictions, the test labels and the forecast.
C11_ScalerFixed ==
    [][ /\ ~NotNormalized => scaler' = scaler
        /\ pc' \notin {"prophet", "arima", "normalize"} =>
              /\ scaler'.data_min = SeqMin(series')
              /\ scaler'.data_max = SeqMax(series')
              /\ \A i \in 1..Len(series') :
                    scaled_data'[i] = Transform(scaler', series'[i])
              /\ \A j \in 1..Len(test_predictions_inv') :
                    /\ test_predictions_inv'[j]
                           = InverseTransform(scaler', test_predictions'[j])
                    /\ y_test_inv'[j] = InverseTransform(scaler', y_test'[j])
              /\ \A j \in 1..Len(future_predictions_inv') :
                    future_predictions_inv'[j]
                        = InverseTransform(scaler', future_predictions'[j])
      ]_vars

C11_Witness ==
    /\ pc = "done"
    /\ scaler.data_max - scaler.data_min > 1
    /\ test_predictions_inv # <<>>
    /\ Len(future_predictions_inv) = Horizon
    /\ SeqMin(SubSeq(series, Len(series) - look_back + 1, Len(series)))
           # SeqMin(series)

\* C12: the forecast holds predictions only: it has Horizon elements, each
\* the denormalised output of a predict call, none of them the last
\* observation put in front; its first element is for the year after the
\* last observed year and the following ones for the years after that.
C12_OnlyPredictions ==
    pc \in {"metrics", "export", "done"} =>
        /\ Len(future_predictions_inv) = Horizon
        /\ Len(future_dates) = Horizon
        /\ \A j \in 1..Horizon :
              /\ future_predictions_inv[j]
                     = InverseTransform(scaler, Predict(lstm_model, predict_inputs[j]))
              /\ YearOf(future_dates[j]) = YearOf(LastDate(Len(series))) + j

C12_Witness ==
    /\ pc = "done"
    /\ future_predictions_inv[1] # RInt(series[Len(series)])
    /\ YearOf(future_dates[1]) = FirstYear + Len(series)

\* C13: no partial forecast is exposed: what the plot and the export read
\* has either no forecast value or all Horizon of them; a run that ended
\* normally has all of them, a run that ended with an exception has none.
C13_NoPartialForecast ==
    /\ Len(future_predictions_inv) \in {0, Horizon}
    /\ Len(all_forecasts.LSTM) \in {0, Horizon}
    /\ pc = "done" =>
          /\ error = "none"
          /\ Len(future_predictions) = Horizon
          /\ Len(future_predictions_inv) = Horizon
          /\ Len(all_forecasts.LSTM) = Horizon
    /\ pc = "failed" =>
          /\ error # "none"
          /\ future_predictions = <<>>
          /\ future_predictions_inv = <<>>
          /\ all_forecasts = NoTable

C13_Witness ==
    /\ pc = "failed"
    /\ error = "ValueError"
    /\ Len(X) >= 1
    /\ future_predictions = <<>>

\* C14: the context buffer always holds look_back values; it starts as the
\* last look_back normalised observations, and after j steps it is the last
\* max(0, look_back - j) observations followed by the min(j, look_back) most
\* recent predictions, in order.
C14_ContextBuffer ==
    InLoop =>
        LET j == Len(future_predictions)
            N == Len(scaled_data)
            keep == IF look_back - j > 0 THEN look_back - j ELSE 0
        IN  /\ Len(last_sequence) = look_back
            /\ \A i \in 1..look_back :
                  IF i <= keep
                  THEN last_sequence[i] = scaled_data[N - keep + i]
                  ELSE last_sequence[i] = future_predictions[j - look_back + i]

C14_Witness ==
    /\ pc = "forecast"
    /\ Len(future_predictions) = 2
    /\ last_sequence[1] # last_sequence[2]
    /\ last_sequence[3] # last_sequence[4]
    /\ last_sequence[2] # last_sequence[3]
    /\ scaled_data[1] # scaled_data[Len(scaled_data) - 1]

\* C16: for the series 322, 315, 308, 301, 294, 287, 280, 276 windowing gives
\* exactly 4 windows; with the function that returns the mean of its
\* context, the first three forecast values, started from the normalised
\* 294, 287, 280, 276, are each the mean of the four values before them in
\* the sequence of observations followed by earlier forecasts.
C16_EndToEnd ==
    (series = <<322, 315, 308, 301, 294, 287, 280, 276>> /\ ~NotWindowed) =>
        /\ Len(X) = 4
        /\ (lstm_model = "mean" /\ pc \in {"plot", "metrics", "export", "done"}) =>
              LET E == scaled_data \o future_predictions
                  V == [i \in 1..Len(series) |-> RInt(series[i])]
                           \o future_predictions_inv
              IN  /\ predict_inputs[1] = << <<9, 23>>, <<11, 46>>, <<2, 23>>, <<0, 1>> >>
                  /\ \A j \in 1..3 :
                        /\ RMul(RInt(4), E[8 + j])
                               = RSum(SubSeq(E, 8 + j - 4, 8 + j - 1))
                        /\ RMul(RInt(4), V[8 + j])
                               = RSum(SubSeq(V, 8 + j - 4, 8 + j - 1))
                  /\ SubSeq(future_predictions, 1, 3)
                         = << <<33, 184>>, <<93, 736>>, <<289, 2944>> >>
                  /\ SubSeq(future_predictions_inv, 1, 3)
                         = << <<1137, 4>>, <<4509, 16>>, <<17953, 64>> >>

C16_Witness ==
    /\ series = <<322, 315, 308, 301, 294, 287, 280, 276>>
    /\ lstm_model = "mean"
    /\ pc = "done"
    /\ Len(future_predictions_inv) >= 3

\* C17: the forecast loop works on its own copy of the context: no step of
\* it changes the normalised series or the raw series.
C17_SeriesUntouched ==
    [][ (pc \in {"forecast_init", "forecast"}) =>
            (scaled_data' = scaled_data /\ series' = series) ]_vars

C17_Witness ==
    /\ pc = "done"
    /\ Len(future_predictions) = Horizon
    /\ future_predictions[Horizon] # scaled_data[Len(scaled_data)]
    /\ last_sequence # LastSequence(scaled_data)
    /\ \A i \in 1..Len(series) : scaled_data[i] = Transform(scaler, series[i])

\* C19: the exported table has one row per forecast period for the horizon
\* of 5: the Date column, the three models' point forecasts and the lower
\* and upper bounds have 5 entries each; the dates are strictly increasing
\* and all in years after the last observed year.
C19_ForecastTable ==
    /\ pc = "export" =>
          /\ Len(future_dates) = Horizon
          /\ Len(future_forecast) = Horizon
          /\ Len(future_forecast_arima) = Horizon
          /\ Len(future_predictions_inv) = Horizon
    /\ pc = "done" =>
          /\ Len(all_forecasts.Date) = Horizon
          /\ Len(all_forecasts.Prophet) = Horizon
          /\ Len(all_forecasts.Prophet_Lower) = Horizon
          /\ Len(all_forecasts.Prophet_Upper) = Horizon
          /\ Len(all_forecasts.ARIMA) = Horizon
          /\ Len(all_forecasts.LSTM) = Horizon
          /\ \A r \in 1..Len(all_forecasts.Date) :
                /\ YearOf(all_forecasts.Date[r]) > YearOf(LastDate(Len(series)))
                /\ r > 1 => all_forecasts.Date[r] > all_forecasts.Date[r - 1]
    /\ pc = "failed" => lstm_model = "untrained"

C19_Witness ==
    /\ pc = "done"
    /\ Len(all_forecasts.Date) = Horizon
    /\ all_forecasts.Date[1] > LastDate(Len(series))
    /\ all_forecasts.LSTM = future_predictions_inv

\* C20: the ARIMA future forecast is for the 5 periods that follow the last
\* observed period of the full series, the periods it is plotted and
\* exported against, and not for periods already observed.
C20_ArimaFuturePeriods ==
    pc \notin {"prophet", "arima"} =>
        /\ Len(future_forecast_arima) = ArimaSteps
        /\ \A k \in 1..Len(future_forecast_arima) :
              /\ future_forecast_arima[k] > LastDate(Len(series))
              /\ YearOf(future_forecast_arima[k])
                     = YearOf(ArimaPlotDates(Len(series))[k])

DsSet(rows) == { rows[i].ds : i \in 1..Len(rows) }

\* C18: after integrate_new_data succeeds the saved dataset has at most one
\* row per ds, its rows are in ascending ds, and every ds of the existing
\* dataset and of the new points is in it (and no other).
C18_MergeDeduplicates ==
    [][ (upd_pc = "ready" /\ upd_pc' = "returned" /\ updated_df' # None) =>
            LET old == data_file.rows \o NewFrame(new_data')
                saved == data_file'.rows
            IN  /\ data_file'.exists
                /\ updated_df' = Frame(saved)
                /\ \A a, b \in 1..Len(saved) : a < b => saved[a].ds < saved[b].ds
                /\ DsSet(saved) = DsSet(data_file.rows) \cup DsSet(NewFrame(new_data'))
                /\ \A a \in 1..Len(saved) : \E b \in 1..Len(old) : old[b] = saved[a]
      ]_vars

C18_Witness ==
    /\ upd_pc = "returned"
    /\ updated_df.kind = "frame"
    /\ Len(new_data) = 2
    /\ Len(data_file.rows) = 3
    /\ data_file.rows[2] = [ds |-> JanFirst(2023), y |-> 1200]

\* The year the r-th value of the recursive forecast is a prediction for: the
\* first follows the last observed year.
LstmTargetYear(n, r) == YearOf(LastDate(n)) + r

\* C21: in the exported table every value of row r is for the period in the
\* Date column of row r: the Prophet forecast and bounds, the ARIMA forecast
\* and the LSTM forecast of the row are predictions for that date's year.
C21_RowsAligned ==
    pc = "done" =>
        \A r \in 1..Len(all_forecasts.Date) :
            /\ YearOf(all_forecasts.Prophet[r]) = YearOf(all_forecasts.Date[r])
            /\ YearOf(all_forecasts.Prophet_Lower[r]) = YearOf(all_forecasts.Date[r])
            /\ YearOf(all_forecasts.Prophet_Upper[r]) = YearOf(all_forecasts.Date[r])
            /\ YearOf(all_forecasts.ARIMA[r]) = YearOf(all_forecasts.Date[r])
            /\ LstmTargetYear(Len(series), r) = YearOf(all_forecasts.Date[r])

\* C22: the j-th test prediction is dated with the period of its window's
\* label: test window j is window train_size + j, its label is the series
\* element look_back places later, and test_dates[j] is the date of that
\* element; there are as many test dates as test predictions.
C22_TestDates ==
    pc \in {"metrics", "export", "done"} =>
        /\ Len(test_dates) = Len(test_predictions_inv)
        /\ Len(test_dates) = Len(y_test)
        /\ \A j \in 1..Len(test_dates) :
              /\ train_size + j + look_back <= Len(series)
              /\ test_dates[j] = DS(Len(series))[train_size + j + look_back]
              /\ y_test[j] = scaled_data[train_size + j + look_back]
              /\ X_test[j] = X[train_size + j]

C22_Witness ==
    /\ pc = "metrics"
    /\ Len(test_dates) >= 2
    /\ train_size >= 2
    /\ test_dates[Len(test_dates)] = LastDate(Len(series))

\* C23: for every series longer than look_back the training partition handed
\* to fit holds at least one window.
C23_TrainingNonEmpty ==
    (pc = "fit" /\ Len(series) > look_back) => Len(X_train) >= 1

\* C24: when there is at least one window the test partition is not empty,
\* so the test-set error, once computed, is a mean over at least one squared
\* error.
C24_TestNonEmpty ==
    /\ (~NotSplit /\ Len(X) >= 1) =>
          /\ Len(X_test) >= 1
          /\ Len(y_test) = Len(X_test)
          /\ Len(X_test) = Len(X) - train_size
    /\ pc \in {"export", "done"} =>
          /\ Len(test_predictions_inv) >= 1
          /\ Len(y_test_inv) = Len(test_predictions_inv)
          /\ test_loss = MeanSquaredDiff(test_predictions_inv, y_test_inv)

C24_Witness ==
    /\ pc = "export"
    /\ Len(X) = 2
    /\ Len(X_test) = 1
    /\ test_loss # NoValue

\* The steps of the cycle that ran, by name.
Ran(name) == \E i \in 1..Len(steps) : steps[i][1] = name
Pos(name) == CHOOSE i \in 1..Len(steps) : steps[i][1] = name
ResultOf(name) == steps[Pos(name)][2]

\* C25: in an update cycle the backup precedes any modification: when the
\* data file exists at the start the backup step writes a backup with the
\* file's rows and leaves the file alone, and the data file is overwritten
\* only in a cycle that has written such a backup.
C25_BackupFirst ==
    [][ /\ (cyc_pc = "backup" /\ cyc_pc' = "fetch" /\ data_file.exists) =>
              (backup' = File(data_file.rows) /\ data_file' = data_file)
        /\ (cyc_pc # "off" /\ data_file' # data_file) =>
              (backup.exists /\ backup.rows = data_file.rows)
      ]_vars

C25_Witness ==
    /\ cyc_pc = "done"
    /\ success = "True"
    /\ backup.exists
    /\ Len(backup.rows) = 3
    /\ backup.rows = data_file.rows

\* C26: has_new_who_data returns True exactly when the latest year of the
\* stored dataset is earlier than 2023, and a cycle run on a dataset that
\* ends before 2023 puts the new WHO points into the data file.
C26_DetectsNewData ==
    (cyc_pc \in {"finish", "status", "done"} /\ backup.exists /\ backup.rows # <<>>) =>
        /\ has_new = "True" <=> MaxYear(backup.rows) < latest_available
        /\ MaxYear(backup.rows) < latest_available =>
              DsSet(NewFrame(GetNewWhoData)) \subseteq DsSet(data_file.rows)

C28_BooleanOutcome ==
    /\ cyc_pc \in {"status", "done"} => success \in {"True", "False"}
    /\ (cyc_pc # "off" /\ Ran("backup") /\ ResultOf("backup") = "raised") =>
          success = "False"
    /\ cyc_pc = "done" =>
          /\ exit_code \in {0, 1}
          /\ exit_code = 0 <=> success = "True"
    /\ cyc_pc \notin {"off", "done"} => exit_code = NoExit

C28_Witness ==
    /\ cyc_pc = "done"
    /\ exit_code = 1
    /\ success = "False"
    /\ steps = << <<"backup", "raised">> >>

\* C29: validate_updated_data is advisory: date gaps, values below 0 or above
\* 1000 and duplicate periods only add a warning, the result is True for
\* every dataset it is given, and False only when a check raised.
C29_AdvisoryOnly ==
    upd_pc = "validated" =>
        /\ validation.result \in {"True", "False"}
        /\ validated_df.kind = "frame" <=> validation.result = "True"
        /\ validation.warnings \subseteq {"gaps", "range", "duplicates"}
        /\ validated_df.kind = "frame" =>
              /\ "duplicates" \in validation.warnings
                     <=> Cardinality(DsSet(validated_df.rows)) < Len(validated_df.rows)
              /\ "range" \in validation.warnings
                     <=> \E i \in 1..Len(validated_df.rows) :
                            validated_df.rows[i].y \notin 0..1000
              /\ Len(validated_df.rows) <= 1 => "gaps" \notin validation.warnings

C29_Witness ==
    /\ upd_pc = "validated"
    /\ validation.result = "True"
    /\ validation.warnings = {"gaps", "range", "duplicates"}

\* C30: integrate_new_data leaves the data file as it was when it fails:
\* when reading the dataset, converting the new points or merging raises,
\* None is returned and the file is unchanged; the file is written only by
\* a call that returns the merged frame.
C30_FileUnchangedOnError ==
    [][ (upd_pc = "ready" /\ upd_pc' = "returned") =>
            /\ updated_df' = None => data_file' = data_file
            /\ data_file' # data_file =>
                  (updated_df'.kind = "frame" /\ data_file' = File(updated_df'.rows))
      ]_vars

C30_Witness ==
    /\ upd_pc = "returned"
    /\ updated_df = None
    /\ new_data = <<>>
    /\ data_file.exists
    /\ Len(data_file.rows) = 2

=============================================================================
